---- MODULE Spec2Model ----
(***************************************************************************)
(* dislib preprocessing: StandardScaler over block-partitioned ds-arrays,  *)
(* its block-level tasks run by a dependency-driven scheduler, and the     *)
(* row utilities shuffle / resample exercised by tests/test_utils.py.      *)
(***************************************************************************)
EXTENDS Integers, Sequences, FiniteSets, TLC

\* ------------------------------------------------------------------ bounds
MaxRows == 3        \* rows of an input ds-array: BlockRows..MaxRows
MaxFeat == 2        \* features (columns) and nominal block width: 1..MaxFeat
MaxShuffleRows == 3 \* rows of the arrays given to shuffle: 1..MaxShuffleRows
MaxSeed == 5        \* random_state: 0..MaxSeed
MaxValue == 1       \* a row of an array given to shuffle: 0..MaxValue
MaxData == 4        \* rows of the dataset given to resample: 1..MaxData
MaxSamples == 3     \* n_samples of resample: 1..MaxSamples
BlockRows == 2      \* nominal number of rows of a block of an input array

\* ------------------------------------------------------------- ds-arrays
CeilDiv(a, b) == (a + b - 1) \div b

Min(a, b) == IF a < b THEN a ELSE b

\* An input ds-array, given by what ds.array(x, block_size) is built from.
Stores ==
    [nr : BlockRows..MaxRows, bn : {BlockRows}, nf : 1..MaxFeat,
     bm : 1..MaxFeat, sparse : BOOLEAN]

\* The element of row i, column j of the input (1-based), a small integer.
Cell(x, i, j) == (i * (j + 1) + x.nr + x.nf) % 3

RowBands(x) == CeilDiv(x.nr, x.bn)

ColBlocks(x) == CeilDiv(x.nf, x.bm)

\* Rows of row-band r and columns of column-block c (last one may be smaller).
BandRows(x, r) == Min(x.bn, x.nr - (r - 1) * x.bn)

BlockCols(x, c) == Min(x.bm, x.nf - (c - 1) * x.bm)

\* Concrete block (r, c) of the input: csr_matrix if sparse, ndarray if not.
XBlock(x, r, c) ==
    [type |-> IF x.sparse THEN "csr" ELSE "ndarray",
     data |-> [i \in 1..BandRows(x, r) |->
                 [j \in 1..BlockCols(x, c) |->
                    Cell(x, (r - 1) * x.bn + i, (c - 1) * x.bm + j)]]]

\* Array(blocks, blocks_shape, shape, sparse): a grid of block references.
Array(blocks, blocks_shape, shape, sparse) ==
    [blocks |-> blocks, blocks_shape |-> blocks_shape, shape |-> shape,
     sparse |-> sparse]

\* Python's None for the attributes mean_ and var_.
None == Array(<<>>, <<0, 0>>, <<0, 0>>, FALSE)

\* References to blocks.  "xf" / "xt" name block (i, j) of the array given to
\* the latest fit / transform, "m" / "v" the result of the mean / variance
\* task of column j of the latest fit (i = 1), and "o" the j-th element of the
\* out_blocks list of row-band i of the latest transform.
Ref(k, i, j) == [k |-> k, i |-> i, j |-> j]

\* The ds-array x as a grid of references of kind k.
XArray(k, x) ==
    Array([r \in 1..RowBands(x) |-> [b \in 1..ColBlocks(x) |-> Ref(k, r, b)]],
          <<x.bn, x.bm>>, <<x.nr, x.nf>>, x.sparse)

\* Array._iterator(axis): axis 0 yields one array per row of the grid, axis 1
\* one array per column of the grid; each keeps the 2-D grid form.
Iterator(a, axis) ==
    IF axis = 0
    THEN [r \in 1..Len(a.blocks) |->
            Array(<<a.blocks[r]>>, a.blocks_shape,
                  <<a.blocks_shape[1], a.shape[2]>>, a.sparse)]
    ELSE [c \in 1..Len(a.blocks[1]) |->
            Array([r \in 1..Len(a.blocks) |-> <<a.blocks[r][c]>>],
                  a.blocks_shape, <<a.shape[1], a.blocks_shape[2]>>, a.sparse)]

\* ---------------------------------------------------------------- values
Future == [type |-> "future", data |-> <<>>]

\* object(): the placeholder transform puts in every slot of out_blocks.
Placeholder == [type |-> "object", data |-> <<>>]

RECURSIVE Flatten(_)
Flatten(ss) == IF ss = <<>> THEN <<>> ELSE Head(ss) \o Flatten(Tail(ss))

\* Array._merge_blocks: np.block / sp.bmat of a grid of concrete blocks; the
\* result has the representation of the first block.
MergeBlocks(grid) ==
    [type |-> IF grid[1][1].type = "csr" THEN "csr" ELSE "ndarray",
     data |-> Flatten([r \in 1..Len(grid) |->
                [i \in 1..Len(grid[r][1].data) |->
                   Flatten([b \in 1..Len(grid[r]) |-> grid[r][b].data[i]])]])]

NCols(m) == Len(m.data[1])

RECURSIVE SumTo(_, _)
SumTo(f, n) == IF n = 0 THEN 0 ELSE f[n] + SumTo(f, n - 1)

\* np.mean(m, axis=0) as exact fractions <<sum, count>>, one per column.
ColMean(m) ==
    [j \in 1..NCols(m) |->
        <<SumTo([i \in 1..Len(m.data) |-> m.data[i][j]], Len(m.data)),
          Len(m.data)>>]

\* ------------------------------------------------------------ task bodies
\* Body of the task ds.apply_along_axis(np.mean, 0, x) runs on one column of
\* the grid: the column-wise mean of the merged blocks, a dense (1, w) block.
MeanBody(blocks) ==
    [type |-> "ndarray", data |-> <<ColMean(MergeBlocks(blocks))>>]

\* Column of the (1, n) statistics that numpy broadcasts against column j.
BCol(stat, j) == IF NCols(stat) = 1 THEN 1 ELSE j

\* _compute_var: np.mean(np.array(x - mean) ** 2, axis=0).  With the mean of
\* a column the fraction s/n, (x - s/n)^2 = (n*x - s)^2 / n^2, and the mean of
\* these over the R rows of x is the fraction <<sum of (n*x - s)^2, n^2 * R>>.
\* The result is a dense vector, kept as one row.
ComputeVarBody(blocks, m_blocks) ==
    LET x == MergeBlocks(blocks)
        mean == MergeBlocks(m_blocks)
        R == Len(x.data)
        Sq(i, j) == LET m == mean.data[1][BCol(mean, j)]
                    IN (m[2] * x.data[i][j] - m[1]) * (m[2] * x.data[i][j] - m[1])
    IN [type |-> "ndarray",
        data |-> <<[j \in 1..NCols(x) |->
                     <<SumTo([i \in 1..R |-> Sq(i, j)], R),
                       mean.data[1][BCol(mean, j)][2]
                         * mean.data[1][BCol(mean, j)][2] * R>>]>>]

\* (x - mean) / np.sqrt(var) on an (R, n) matrix x and (1, k) statistics
\* raises ValueError unless the shapes broadcast: numpy accepts n = k or one
\* of them being 1; a sparse x takes the statistics broadcast to its own
\* shape, so n = k or k = 1.
BroadcastOK(x, k) ==
    \/ NCols(x) = k
    \/ k = 1
    \/ (x.type # "csr" /\ NCols(x) = 1)

\* One element of scaled_x, kept as the operands of (x - mean) / sqrt(var):
\* a zero variance is not special-cased.
Scaled(x, mean, var, i, j) ==
    [x |-> x.data[i][IF NCols(x) = 1 THEN 1 ELSE j],
     mean |-> mean.data[1][BCol(mean, j)],
     var |-> var.data[1][BCol(var, j)]]

\* range(0, n, step) as the sequence of its elements.
Range0(n, step) == [i \in 1..CeilDiv(n, step) |-> (i - 1) * step]

\* _transform: merges its inputs, scales, and writes one slice per element
\* of range(0, x.shape[1], bm), bm = len(blocks), to out_blocks[i].  blocks is
\* the (1, n_blocks) grid of one row-band, so len(blocks) is the number of
\* rows of that grid.  A write past the end of out_blocks raises IndexError
\* after the slots before it have been written.  Returns the list and how
\* the body ended.
TransformBody(blocks, m_blocks, v_blocks, out_blocks) ==
    LET x == MergeBlocks(blocks)
        mean == MergeBlocks(m_blocks)
        var == MergeBlocks(v_blocks)
        ok == BroadcastOK(x, NCols(mean))
        wide == IF NCols(x) = 1 THEN NCols(mean) ELSE NCols(x)
        bm == Len(blocks)
        constructor_func == IF x.type # "csr" THEN "ndarray" ELSE "csr"
        js == Range0(NCols(x), bm)
        Slice(j) ==
            [type |-> constructor_func,
             data |-> [i \in 1..Len(x.data) |->
                        [d \in 1..Min(bm, wide - j) |->
                           Scaled(x, mean, var, i, j + d)]]]
    IN IF ~ok
       THEN [out |-> out_blocks, status |-> "ValueError"]
       ELSE [out |-> [i \in 1..Len(out_blocks) |->
                        IF i <= Len(js) THEN Slice(js[i]) ELSE out_blocks[i]],
             status |-> IF Len(js) > Len(out_blocks) THEN "IndexError"
                        ELSE "done"]

\* ------------------------------------------------------------------ state
\* The model keeps what can still be observed: the scaler, the result of the
\* latest call, and the tasks and blocks reachable from these.  A call that
\* replaces mean_ / var_ or the latest result drops the tasks and blocks that
\* only the replaced objects referred to.
VARIABLES
    mean_,      \* StandardScaler.mean_: None or a ds-array
    var_,       \* StandardScaler.var_: None or a ds-array
    src,        \* the arrays given to the latest fit (f) and transform (t)
    last,       \* the latest call on the scaler and what it returned
    fit_done,   \* history: some fit or fit_transform has completed
    tasks,      \* the tasks submitted to the scheduler, in submission order
    heap,       \* the object behind every reference
    shuffled,   \* the latest call of shuffle: its arguments and its result
    resampled   \* the latest call of resample: its arguments and its result

vars == <<mean_, var_, src, last, fit_done, tasks, heap, shuffled, resampled>>

scaler_vars == <<mean_, var_, src, last, fit_done, tasks, heap>>

\* A call of shuffle / resample: its arguments, whether it has returned and
\* what it returned.  indices stands for the draws of the random generator.
ShuffleCall(x, y, seed) ==
    [x |-> x, y |-> y, seed |-> seed, returned |-> FALSE,
     out_x |-> <<>>, out_y |-> <<>>]

ResampleCall(sizes, n_samples, indices) ==
    [sizes |-> sizes, n_samples |-> n_samples, indices |-> indices,
     returned |-> FALSE, out |-> <<>>]

NoShuffle == ShuffleCall(<<>>, <<>>, 0)

NoResample == ResampleCall(<<>>, 0, <<>>)

NoStore == [nr |-> 0, bn |-> 0, nf |-> 0, bm |-> 0, sparse |-> FALSE]

\* A submitted task: the function, its position in the loop that submitted
\* it, its collection parameters and the reference(s) it returns or updates.
Task(fn, idx, blocks, m_blocks, v_blocks, out) ==
    [fn |-> fn, idx |-> idx, blocks |-> blocks, m_blocks |-> m_blocks,
     v_blocks |-> v_blocks, out |-> out, status |-> "pending"]

\* The scaler and the runtime as one value, so that calls compose.
State(m, v, x, t, h) ==
    [mean_ |-> m, var_ |-> v, src |-> x, tasks |-> t, heap |-> h]

\* The heap h without the references outside keep, plus refs set to val.
Rebuild(h, keep, refs, val) ==
    [r \in {q \in DOMAIN h : q.k \in keep} \cup refs |->
        IF r \in refs THEN val ELSE h[r]]

IsFitTask(t) == t.fn \in {"mean", "var"}

\* ds.apply_along_axis(np.mean, 0, x): one task per column of the grid of x,
\* the results assembled into a dense (1, n_features) array with the block
\* width of x.
ApplyAlongAxisMean(xa) ==
    LET cols == Iterator(xa, 1)
        refs == [j \in 1..Len(cols) |-> Ref("m", 1, j)]
    IN [array |-> Array(<<refs>>, <<1, xa.blocks_shape[2]>>,
                        <<1, xa.shape[2]>>, FALSE),
        tasks |-> [j \in 1..Len(cols) |->
                     Task("mean", j, cols[j].blocks, <<>>, <<>>, <<refs[j]>>)]]

\* Variant of fit: the variance loop runs over the rows of the grid of x.
FitBody_Rows(st, x) ==
    LET xa == XArray("xf", x)
        m == ApplyAlongAxisMean(xa)
        rows == Iterator(xa, 0)
        var_blocks == <<[j \in 1..Len(rows) |-> Ref("v", 1, j)]>>
    IN State(m.array,
             Array(var_blocks, m.array.blocks_shape, m.array.shape, FALSE),
             [f |-> x, t |-> NoStore],
             m.tasks \o
               [j \in 1..Len(rows) |->
                  Task("var", j, rows[j].blocks, m.array.blocks, <<>>,
                       <<var_blocks[1][j]>>)],
             Rebuild(st.heap, {},
                     {m.array.blocks[1][j] : j \in 1..Len(m.array.blocks[1])}
                       \cup {var_blocks[1][j] : j \in 1..Len(rows)},
                     Future))

\* StandardScaler.fit on input x.
FitBody(st, x) ==
    LET xa == XArray("xf", x)
        m == ApplyAlongAxisMean(xa)
        rows == Iterator(xa, 1)
        m_rows == Iterator(m.array, 1)
        n == Min(Len(rows), Len(m_rows))
        var_blocks == <<[j \in 1..n |-> Ref("v", 1, j)]>>
    IN State(m.array,
             Array(var_blocks, m.array.blocks_shape, m.array.shape, FALSE),
             [f |-> x, t |-> NoStore],
             m.tasks \o
               [j \in 1..n |->
                  Task("var", j, rows[j].blocks, m_rows[j].blocks, <<>>,
                       <<var_blocks[1][j]>>)],
             Rebuild(st.heap, {},
                     {m.array.blocks[1][j] : j \in 1..Len(m.array.blocks[1])}
                       \cup {var_blocks[1][j] : j \in 1..n},
                     Future))

\* Variant of transform: the not-initialized check never fires on a new scaler.
TransformBodyCall_NoCheck(st, x) ==
    LET xa == XArray("xt", x)
        rows == Iterator(xa, 0)
        blocks == [r \in 1..Len(rows) |->
                     [i \in 1..xa.blocks_shape[2] |-> Ref("o", r, i)]]
    IN [st |-> State(st.mean_, st.var_, [f |-> st.src.f, t |-> x],
                     SelectSeq(st.tasks, IsFitTask),
                     Rebuild(st.heap, {"m", "v"}, {}, Placeholder)),
        ret |-> Array(blocks, xa.blocks_shape, xa.shape, xa.sparse),
        raised |-> FALSE]

\* StandardScaler.transform on input x: the new state, the returned array
\* and whether the call raised.
TransformBodyCall(st, x) ==
    LET xa == XArray("xt", x)
        n_blocks == xa.blocks_shape[2]
        m_blocks == st.mean_.blocks
        v_blocks == st.var_.blocks
        rows == Iterator(xa, 0)
        blocks == [r \in 1..Len(rows) |-> [i \in 1..n_blocks |-> Ref("o", r, i)]]
    IN IF st.mean_ = None \/ st.var_ = None
       THEN [st |-> st, ret |-> None, raised |-> TRUE]
       ELSE [st |-> State(st.mean_, st.var_, [f |-> st.src.f, t |-> x],
                          SelectSeq(st.tasks, IsFitTask) \o
                            [r \in 1..Len(rows) |->
                               Task("transform", r, rows[r].blocks, m_blocks,
                                    v_blocks, blocks[r])],
                          Rebuild(st.heap, {"m", "v"},
                                  UNION {{blocks[r][i] : i \in 1..n_blocks} :
                                           r \in 1..Len(rows)},
                                  Placeholder)),
             ret |-> Array(blocks, xa.blocks_shape, xa.shape, xa.sparse),
             raised |-> FALSE]

\* Variant of fit_transform: fits only a scaler that is not fitted yet.
FitTransformBody_FitOnce(st, x) ==
    IF st.mean_ # None THEN TransformBodyCall(st, x)
    ELSE TransformBodyCall(FitBody(st, x), x)

\* StandardScaler.fit_transform: self.fit(x).transform(x).
FitTransformBody(st, x) == TransformBodyCall(FitBody(st, x), x)

Now == State(mean_, var_, src, tasks, heap)

Call(op, x, ret, raised) ==
    [op |-> op, x |-> x, ret |-> ret, raised |-> raised, fit_before |-> fit_done]

Install(st, call) ==
    /\ mean_' = st.mean_
    /\ var_' = st.var_
    /\ src' = st.src
    /\ tasks' = st.tasks
    /\ heap' = st.heap
    /\ last' = call
    /\ UNCHANGED <<shuffled, resampled>>

\* StandardScaler.__init__, with an idle runtime and no call made yet.
ScalerInit ==
    /\ mean_ = None
    /\ var_ = None
    /\ src = [f |-> NoStore, t |-> NoStore]
    /\ last = [op |-> "init", x |-> NoStore, ret |-> None, raised |-> FALSE,
               fit_before |-> FALSE]
    /\ fit_done = FALSE
    /\ tasks = <<>>
    /\ heap = <<>>

Init ==
    /\ ScalerInit
    /\ shuffled = NoShuffle
    /\ resampled = NoResample

Fit(x) ==
    /\ Install(FitBody(Now, x), Call("fit", x, None, FALSE))
    /\ fit_done' = TRUE

Transform(x) ==
    /\ LET r == TransformBodyCall(Now, x)
       IN Install(r.st, Call("transform", x, r.ret, r.raised))
    /\ UNCHANGED fit_done

FitTransform(x) ==
    /\ LET r == FitTransformBody(Now, x)
       IN Install(r.st, Call("fit_transform", x, r.ret, r.raised))
    /\ fit_done' = TRUE

\* ------------------------------------------------------------- scheduler
\* The object behind a reference: input blocks are concrete from the start.
Deref(h) ==
    CASE h.k = "xf" -> XBlock(src.f, h.i, h.j)
      [] h.k = "xt" -> XBlock(src.t, h.i, h.j)
      [] OTHER -> heap[h]

Available(h) == IF h.k \in {"xf", "xt"} THEN TRUE ELSE heap[h].type # "future"

Grid(g) == [r \in 1..Len(g) |-> [b \in 1..Len(g[r]) |-> Deref(g[r][b])]]

GridRefs(g) == UNION {{g[r][b] : b \in 1..Len(g[r])} : r \in 1..Len(g)}

\* Variant of the task declarations: only blocks is declared as an input.
Inputs_BlocksOnly(t) == GridRefs(t.blocks)

\* The references a task reads: its parameters declared COLLECTION_IN.
Inputs(t) == GridRefs(t.blocks) \cup GridRefs(t.m_blocks) \cup GridRefs(t.v_blocks)

Ready(t) == t.status = "pending" /\ \A h \in Inputs(t) : Available(h)

\* The scheduler starts a pending task whose inputs are available.
StartTask(k) ==
    /\ k \in 1..Len(tasks)
    /\ Ready(tasks[k])
    /\ tasks' = [tasks EXCEPT ![k].status = "running"]
    /\ UNCHANGED <<mean_, var_, src, last, fit_done, heap, shuffled, resampled>>

\* A running task ends: its body ran to its end or raised.
FinishTask(k) ==
    /\ k \in 1..Len(tasks)
    /\ tasks[k].status = "running"
    /\ LET t == tasks[k]
           tr == TransformBody(Grid(t.blocks), Grid(t.m_blocks),
                               Grid(t.v_blocks),
                               [i \in 1..Len(t.out) |-> heap[t.out[i]]])
           Result(i) ==
               CASE t.fn = "mean" -> MeanBody(Grid(t.blocks))
                 [] t.fn = "var" -> ComputeVarBody(Grid(t.blocks), Grid(t.m_blocks))
                 [] OTHER -> tr.out[i]
       IN /\ heap' = [h \in DOMAIN heap |->
                        IF \E i \in 1..Len(t.out) : t.out[i] = h
                        THEN Result(CHOOSE i \in 1..Len(t.out) : t.out[i] = h)
                        ELSE heap[h]]
          /\ tasks' = [tasks EXCEPT
                         ![k].status = IF t.fn = "transform" THEN tr.status
                                       ELSE "done"]
    /\ UNCHANGED <<mean_, var_, src, last, fit_done, shuffled, resampled>>

Next ==
    \/ \E x \in Stores : Fit(x)
    \/ \E x \in Stores : Transform(x)
    \/ \E x \in Stores : FitTransform(x)
    \/ \E k \in 1..Len(tasks) : StartTask(k)
    \/ \E k \in 1..Len(tasks) : FinishTask(k)

Spec == Init /\ [][Next]_vars

\* ------------------------------------------------------ shuffle, resample
\* A matrix cut into blocks of at most b rows, the last one possibly smaller,
\* and back.
Blocked(rows, b) ==
    [i \in 1..CeilDiv(Len(rows), b) |->
        SubSeq(rows, (i - 1) * b + 1, Min(i * b, Len(rows)))]

BlockRowsOf(a) == IF a = <<>> THEN 0 ELSE Len(a[1])

\* The permutation of items a seed stands for: the seed is read as
\* the code of a permutation, one digit per position, so that equal seeds
\* give equal permutations and the seeds 0..n!-1 give every permutation.
RECURSIVE SeedPermutation(_, _)
Without(items, k) == SubSeq(items, 1, k - 1) \o SubSeq(items, k + 1, Len(items))

SeedPermutation(seed, items) ==
    IF items = <<>> THEN <<>>
    ELSE LET k == (seed % Len(items)) + 1
         IN <<items[k]>> \o SeedPermutation(seed \div Len(items), Without(items, k))

Permuted(rows, p) == [j \in 1..Len(rows) |-> rows[p[j]]]

\* Variant of shuffle: y is reordered with the permutation of another seed.
ShuffleBody_OwnPermutation(x, y, seed) ==
    LET n == Len(Flatten(x))
        ids == [i \in 1..n |-> i]
    IN [out_x |-> Blocked(Permuted(Flatten(x), SeedPermutation(seed, ids)),
                          BlockRowsOf(x)),
        out_y |-> Blocked(Permuted(Flatten(y), SeedPermutation(seed + 1, ids)),
                          BlockRowsOf(y))]

\* shuffle(x, y, random_state=seed): one permutation of the row indices,
\* drawn from the seed, reorders the rows of x and of y; each result keeps
\* the block size of its input.
ShuffleBody(x, y, seed) ==
    LET n == Len(Flatten(x))
        p == SeedPermutation(seed, [i \in 1..n |-> i])
    IN [out_x |-> Blocked(Permuted(Flatten(x), p), BlockRowsOf(x)),
        out_y |-> Blocked(Permuted(Flatten(y), p), BlockRowsOf(y))]

\* The arrays given to shuffle: n rows each, cut into blocks of bx and of by
\* rows; row i of x is the number i and a row of y is a small value.
ShuffleInputs ==
    UNION {[x : {Blocked([i \in 1..n |-> i], bx) : bx \in 1..n},
            y : {Blocked(r, by) : r \in [1..n -> 0..MaxValue], by \in 1..n}] :
           n \in 1..MaxShuffleRows}

ShuffleInit ==
    /\ ScalerInit
    /\ resampled = NoResample
    /\ \E a \in ShuffleInputs, seed \in 0..MaxSeed :
          shuffled = ShuffleCall(a.x, a.y, seed)

Shuffle ==
    /\ ~shuffled.returned
    /\ shuffled' =
          [shuffled EXCEPT
             !.returned = TRUE,
             !.out_x = ShuffleBody(shuffled.x, shuffled.y, shuffled.seed).out_x,
             !.out_y = ShuffleBody(shuffled.x, shuffled.y, shuffled.seed).out_y]
    /\ UNCHANGED <<scaler_vars, resampled>>

SpecShuffle == ShuffleInit /\ [][Shuffle]_vars

\* A dataset given to resample, by the sizes of its subsets: n rows in
\* subsets of subset_size rows, the last one possibly smaller.  Row i of the
\* dataset is the number i.
SubsetSizes(n, subset_size) ==
    [i \in 1..CeilDiv(n, subset_size) |->
        Min(subset_size, n - (i - 1) * subset_size)]

Offset(sizes, i) == SumTo(sizes, i - 1)

\* The drawn indices that fall in subset i of the dataset, in drawing order.
DrawnIn(sizes, indices, i) ==
    SelectSeq(indices,
              LAMBDA d : d > Offset(sizes, i) /\ d <= Offset(sizes, i) + sizes[i])

\* Variant of resample: a subset no drawn index falls in is kept, empty.
ResampleBody_KeepEmpty(sizes, indices) ==
    [i \in 1..Len(sizes) |-> DrawnIn(sizes, indices, i)]

\* resample(dataset, n_samples): indices holds the n_samples row indices
\* drawn with replacement; every subset of the dataset gives the subset of
\* its drawn rows, and a subset without drawn rows gives nothing.
ResampleBody(sizes, indices) ==
    SelectSeq([i \in 1..Len(sizes) |-> DrawnIn(sizes, indices, i)],
              LAMBDA sub : sub # <<>>)

ResampleInit ==
    /\ ScalerInit
    /\ shuffled = NoShuffle
    /\ \E n \in 1..MaxData, k \in 1..MaxSamples :
          \E subset_size \in 1..n, indices \in [1..k -> 1..n] :
             resampled = ResampleCall(SubsetSizes(n, subset_size), k, indices)

Resample ==
    /\ ~resampled.returned
    /\ resampled' =
          [resampled EXCEPT
             !.returned = TRUE,
             !.out = ResampleBody(resampled.sizes, resampled.indices)]
    /\ UNCHANGED <<scaler_vars, shuffled>>

SpecResample == ResampleInit /\ [][Resample]_vars

\* ------------------------------------------------------------ properties
Finished(t) == t.status \notin {"pending", "running"}

Started(t) == t.status # "pending"

Failed(t) == t.status \in {"IndexError", "ValueError"}

\* The latest call returned an output array.
Returned == last.op \in {"transform", "fit_transform"} /\ ~last.raised

TasksOf(fn) == {k \in 1..Len(tasks) : tasks[k].fn = fn}

RowVec(refs) == {refs[j] : j \in 1..Len(refs)}

\* What the statistics and the scaled blocks are, computed directly from the
\* inputs: column block j of the mean and variance of x, and the out_blocks
\* list of row-band r of xt scaled with the statistics of xf.
ColGridX(x, j) == [r \in 1..RowBands(x) |-> <<XBlock(x, r, j)>>]

RowGridX(x, r) == <<[b \in 1..ColBlocks(x) |-> XBlock(x, r, b)]>>

ExpMean(x, j) == MeanBody(ColGridX(x, j))

ExpVar(x, j) == ComputeVarBody(ColGridX(x, j), <<<<ExpMean(x, j)>>>>)

ExpOut(xf, xt, r) ==
    TransformBody(RowGridX(xt, r),
                  <<[j \in 1..ColBlocks(xf) |-> ExpMean(xf, j)]>>,
                  <<[j \in 1..ColBlocks(xf) |-> ExpVar(xf, j)]>>,
                  [i \in 1..xt.bm |-> Placeholder])

\* Every finished task left in its output references what the direct
\* computation gives.
ResultsAsExpected ==
    \A k \in 1..Len(tasks) :
        LET t == tasks[k]
        IN Finished(t) =>
             CASE t.fn = "mean" -> heap[t.out[1]] = ExpMean(src.f, t.idx)
               [] t.fn = "var" -> heap[t.out[1]] = ExpVar(src.f, t.idx)
               [] OTHER ->
                    /\ t.status = ExpOut(src.f, src.t, t.idx).status
                    /\ \A i \in 1..Len(t.out) :
                          heap[t.out[i]] = ExpOut(src.f, src.t, t.idx).out[i]

\* C1: a transform call raises the not-initialized error exactly when no fit
\* or fit_transform completed before it on the scaler; a call that raised
\* returned no array and left mean_ and var_ absent; and once a fit has
\* completed, mean_ and var_ are never absent again.
C1_NotFittedExactlyBeforeFit ==
    /\ last.op = "transform" => (last.raised <=> ~last.fit_before)
    /\ last.op = "fit_transform" => ~last.raised
    /\ last.raised => last.ret = None /\ mean_ = None /\ var_ = None
    /\ fit_done => mean_ # None /\ var_ # None

C1_Witness ==
    /\ last.op = "transform"
    /\ last.raised
    /\ last.x.nf = MaxFeat
    /\ mean_ = None

\* C2: fit_transform(x), from any state of the scaler, returns the array and
\* leaves the mean_, var_, submitted tasks and task results that the calls
\* fit(x) then transform(x) give; Returned with src.f = last.x covers the
\* two-call sequence with tasks run in between.
Fresh == State(None, None, [f |-> NoStore, t |-> NoStore], <<>>, <<>>)

TwoCalls(x) == TransformBodyCall(FitBody(Fresh, x), x)

Submitted(ts) == [k \in 1..Len(ts) |-> [ts[k] EXCEPT !.status = "pending"]]

C2_FitTransformIsFitThenTransform ==
    (last.op = "fit_transform" \/ (Returned /\ src.f = last.x)) =>
        /\ ~last.raised
        /\ last.ret = TwoCalls(last.x).ret
        /\ mean_ = TwoCalls(last.x).st.mean_
        /\ var_ = TwoCalls(last.x).st.var_
        /\ src = TwoCalls(last.x).st.src
        /\ Submitted(tasks) = TwoCalls(last.x).st.tasks
        /\ ResultsAsExpected

C2_Witness ==
    /\ last.op = "fit_transform"
    /\ last.fit_before
    /\ RowBands(last.x) > 1
    /\ \A k \in 1..Len(tasks) : tasks[k].status = "done"

\* C8: a variance task has started only if the mean block of its column, of
\* the latest fit, has been produced; a transform task has started only if
\* every mean and variance block of the latest fit has been produced; no
\* task reads what another task of the same kind writes; and whatever the
\* order in which the tasks ran, each finished task produced the result the
\* direct computation gives.
C8_CausalOrder ==
    /\ \A k \in TasksOf("var") :
          Started(tasks[k]) => Available(mean_.blocks[1][tasks[k].idx])
    /\ \A k \in TasksOf("transform") :
          Started(tasks[k]) =>
             \A h \in RowVec(mean_.blocks[1]) \cup RowVec(var_.blocks[1]) :
                Available(h)
    /\ \A k1, k2 \in 1..Len(tasks) :
          (k1 # k2 /\ tasks[k1].fn = tasks[k2].fn) =>
             RowVec(tasks[k1].out) \cap Inputs(tasks[k2]) = {}
    /\ ResultsAsExpected

C8_Witness ==
    /\ last.op = "transform"
    /\ ~last.raised
    /\ ColBlocks(src.f) > 1
    /\ RowBands(src.t) > 1
    /\ \E k \in TasksOf("transform") : tasks[k].status = "running"
    /\ \E k \in TasksOf("transform") : tasks[k].status = "done"

\* C9 (as amended): fit submits exactly one variance task per column of the
\* grid of x (column-block), each receiving the blocks of that column in
\* every row-band and the mean block of that column, and var_ is dense with
\* the block shape and the shape (1, n_features) of mean_ and one block per
\* block of mean_; each variance block has the width of its column-block.
FitIsLatest == mean_ # None

C9_VarTaskPerColumnBlock ==
    FitIsLatest =>
        LET x == src.f
            vt == SelectSeq(tasks, LAMBDA t : t.fn = "var")
        IN /\ Len(vt) = ColBlocks(x)
           /\ \A j \in 1..Len(vt) :
                 /\ vt[j].idx = j
                 /\ vt[j].blocks = [r \in 1..RowBands(x) |-> <<Ref("xf", r, j)>>]
                 /\ vt[j].m_blocks = <<<<mean_.blocks[1][j]>>>>
                 /\ vt[j].out = <<var_.blocks[1][j]>>
                 /\ Finished(vt[j]) => NCols(heap[vt[j].out[1]]) = BlockCols(x, j)
           /\ var_.sparse = FALSE
           /\ var_.blocks_shape = mean_.blocks_shape
           /\ var_.shape = mean_.shape
           /\ var_.shape = <<1, x.nf>>
           /\ Len(var_.blocks) = 1
           /\ Len(var_.blocks[1]) = Len(mean_.blocks[1])

C9_Witness ==
    /\ last.op = "fit"
    /\ RowBands(src.f) = 2
    /\ ColBlocks(src.f) = 1
    /\ src.f.sparse
    /\ \A k \in TasksOf("var") : tasks[k].status = "done"

\* C9 (original): fit submits exactly one variance task per row-band of x,
\* each receiving that row-band's blocks and the matching mean blocks, and
\* assembles a dense variance array shaped as the mean array.
C9_VarTaskPerRowBand ==
    FitIsLatest =>
        LET x == src.f
            vt == SelectSeq(tasks, LAMBDA t : t.fn = "var")
        IN /\ Len(vt) = RowBands(x)
           /\ \A r \in 1..Len(vt) :
                 vt[r].blocks = <<[b \in 1..ColBlocks(x) |-> Ref("xf", r, b)]>>
           /\ var_.sparse = FALSE
           /\ var_.blocks_shape = mean_.blocks_shape
           /\ var_.shape = mean_.shape
           /\ Len(var_.blocks[1]) = Len(mean_.blocks[1])

\* C3 (as claimed): for a fitted scaler and any input x, transform returns
\* an array of the block shape and shape of x in which every row-band has as
\* many blocks as the row-band of x, and the task of each row-band fills them
\* with blocks of the widths of the blocks of x.
C3_SameBlockGrid ==
    Returned =>
        LET x == last.x
        IN /\ last.ret.blocks_shape = <<x.bn, x.bm>>
           /\ last.ret.shape = <<x.nr, x.nf>>
           /\ Len(last.ret.blocks) = RowBands(x)
           /\ \A r \in 1..Len(last.ret.blocks) :
                 Len(last.ret.blocks[r]) = ColBlocks(x)
           /\ \A k \in TasksOf("transform") :
                 tasks[k].status = "done" =>
                    \A b \in 1..Len(tasks[k].out) :
                       /\ heap[tasks[k].out[b]].type # "object"
                       /\ Len(heap[tasks[k].out[b]].data) = BandRows(x, tasks[k].idx)
                       /\ NCols(heap[tasks[k].out[b]]) = BlockCols(x, b)

\* C4 (as claimed): when the transform task of a row-band has completed,
\* every block of that row-band of the returned array is a csr_matrix if the
\* input is sparse and an ndarray if not, and the returned array carries the
\* sparse flag of x.
C4_SparsityPreserved ==
    Returned =>
        /\ last.ret.sparse = last.x.sparse
        /\ \A k \in TasksOf("transform") :
              tasks[k].status = "done" =>
                 \A b \in 1..Len(last.ret.blocks[tasks[k].idx]) :
                    heap[last.ret.blocks[tasks[k].idx][b]].type =
                       IF last.x.sparse THEN "csr" ELSE "ndarray"

\* C7 (as claimed): if a task submitted by fit or transform failed, the call
\* returned neither a fitted scaler nor an output array.
C7_FailurePropagates ==
    \A k \in 1..Len(tasks) :
        Failed(tasks[k]) =>
            IF tasks[k].fn = "transform" THEN ~Returned
            ELSE mean_ = None \/ var_ = None

\* C10 (as claimed): a _transform task whose operands broadcast writes every
\* slot of its out_blocks and no index outside it: it does not end in an
\* IndexError, the number of slices it cuts is the length of out_blocks, and
\* no placeholder is left.
C10_SlotsWrittenExactlyOnce ==
    \A k \in TasksOf("transform") :
        (Finished(tasks[k]) /\ tasks[k].status # "ValueError") =>
            /\ tasks[k].status = "done"
            /\ CeilDiv(src.t.nf, Len(tasks[k].blocks)) = Len(tasks[k].out)
            /\ \A i \in 1..Len(tasks[k].out) :
                  heap[tasks[k].out[i]].type # "object"

\* C5: shuffle reorders x and y with one and the same bijection: there is a
\* permutation p of the row indices with row j of the shuffled x being row
\* p(j) of x and row j of the shuffled y being row p(j) of y; the results
\* keep the number of rows of their inputs.
Bijections(n) == {p \in [1..n -> 1..n] : \A i \in 1..n : \E j \in 1..n : p[j] = i}

ShuffleCalled == shuffled.returned

C5_ShuffleOnePermutation ==
    ShuffleCalled =>
        LET x == Flatten(shuffled.x)
            y == Flatten(shuffled.y)
            sx == Flatten(shuffled.out_x)
            sy == Flatten(shuffled.out_y)
        IN /\ Len(sx) = Len(x)
           /\ Len(sy) = Len(y)
           /\ \E p \in Bijections(Len(x)) :
                 \A j \in 1..Len(x) : sx[j] = x[p[j]] /\ sy[j] = y[p[j]]

C5_Witness ==
    /\ ShuffleCalled
    /\ Len(Flatten(shuffled.x)) = MaxShuffleRows
    /\ BlockRowsOf(shuffled.x) # BlockRowsOf(shuffled.y)
    /\ Flatten(shuffled.out_x) # Flatten(shuffled.x)
    /\ Flatten(shuffled.out_y) # Flatten(shuffled.y)
    /\ \E i, j \in 1..MaxShuffleRows : Flatten(shuffled.y)[i] # Flatten(shuffled.y)[j]

\* C6 (as amended): resample with n_samples = k >= 1 returns exactly k rows in
\* total, in non-empty subsets, at most one per subset of the dataset; every
\* row is a row of the dataset, taken from the subset of the dataset that
\* the output subset stands for; k = 1 gives one subset of one row.
ResampleCalled == resampled.returned

TotalRows(subsets) == Len(Flatten(subsets))

====
